---------------------------- MODULE Spec2Model ----------------------------
(***************************************************************************)
(* Model of callouts/python/extproc/example/model_armor/                   *)
(* service_callout_example.py: the two body handlers of                    *)
(* CalloutServerExample (on_request_body, on_response_body) and the two    *)
(* screening functions (screen_prompt, screen_model_response).             *)
(*                                                                         *)
(* A raw body is a sequence of lexical tokens (punctuation, string         *)
(* literals, numbers, literals, whitespace, undecodable bytes).  strip,    *)
(* json.loads and json.dumps are modelled on that token level, so that a   *)
(* parse can fail and a dump differs from the text that was parsed.        *)
(***************************************************************************)
EXTENDS Naturals, Sequences, FiniteSets

----------------------------------------------------------------------------
(* Lexical tokens of a body *)

P(c) == [k |-> "p", v |-> c]
S(s) == [k |-> "s", v |-> s]
N(n) == [k |-> "n", v |-> n]
L(l) == [k |-> "l", v |-> l]
W == [k |-> "w", v |-> " "]
X == [k |-> "x", v |-> "ff"]

----------------------------------------------------------------------------
(* Python values produced by json.loads *)

Str(s) == [t |-> "str", s |-> s]
Num(n) == [t |-> "num", n |-> n]
Lit(l) == [t |-> "lit", l |-> l]
Arr(items) == [t |-> "arr", items |-> items]
Obj(kv) == [t |-> "obj", kv |-> kv]

None == Lit("null")

\* dict: insertion-ordered sequence of <<key, value>> pairs with unique keys
DictHas(kv, key) == \E i \in 1..Len(kv) : kv[i][1] = key

DictGet(kv, key) == kv[CHOOSE i \in 1..Len(kv) : kv[i][1] = key][2]

DictSet(kv, key, val) ==
    IF DictHas(kv, key)
    THEN [i \in 1..Len(kv) |-> IF kv[i][1] = key THEN <<key, val>> ELSE kv[i]]
    ELSE Append(kv, <<key, val>>)
\* mutant: every value is taken as truthy
Falsy_Never(x) == FALSE

\* Python truthiness: `not x`
Falsy(x) ==
    CASE x.t = "str" -> x.s = ""
      [] x.t = "num" -> x.n = "0"
      [] x.t = "lit" -> x.l \in {"null", "false"}
      [] x.t = "arr" -> x.items = <<>>
      [] x.t = "obj" -> x.kv = <<>>
\* mutant: no fallback to the second operand
StrOr_NoFallback(a, b) == a

\* Python `a or b` on strings
StrOr(a, b) == IF a = "" THEN b ELSE a

----------------------------------------------------------------------------
(* bytes.decode('utf-8'), str.strip(), json.loads, json.dumps *)

DecodeFails(b) == \E i \in 1..Len(b) : b[i].k = "x"

RECURSIVE LStrip(_)
LStrip(b) == IF b # <<>> /\ Head(b).k = "w" THEN LStrip(Tail(b)) ELSE b

RECURSIVE RStrip(_)
RStrip(b) ==
    IF b # <<>> /\ b[Len(b)].k = "w" THEN RStrip(SubSeq(b, 1, Len(b) - 1)) ELSE b
\* mutant: the body is not stripped
Strip_Not(b) == b

Strip(b) == RStrip(LStrip(b))

\* whitespace between JSON tokens is insignificant
SkipWs(b) == SelectSeq(b, LAMBDA tk : tk.k # "w")

ParseOk(val, next) == [ok |-> TRUE, val |-> val, next |-> next]
ParseFail == [ok |-> FALSE, val |-> None, next |-> 0]

RECURSIVE ParseValue(_, _)
RECURSIVE ParseMembers(_, _, _)
RECURSIVE ParseElements(_, _, _)

ParseValue(tk, i) ==
    IF i > Len(tk) THEN ParseFail
    ELSE CASE tk[i].k = "s" -> ParseOk(Str(tk[i].v), i + 1)
           [] tk[i].k = "n" -> ParseOk(Num(tk[i].v), i + 1)
           [] tk[i].k = "l" -> ParseOk(Lit(tk[i].v), i + 1)
           [] tk[i] = P("{") ->
                IF i + 1 <= Len(tk) /\ tk[i + 1] = P("}")
                THEN ParseOk(Obj(<<>>), i + 2)
                ELSE ParseMembers(tk, i + 1, <<>>)
           [] tk[i] = P("[") ->
                IF i + 1 <= Len(tk) /\ tk[i + 1] = P("]")
                THEN ParseOk(Arr(<<>>), i + 2)
                ELSE ParseElements(tk, i + 1, <<>>)
           [] OTHER -> ParseFail

ParseMembers(tk, i, acc) ==
    IF i + 1 > Len(tk) THEN ParseFail
    ELSE IF tk[i].k # "s" \/ tk[i + 1] # P(":") THEN ParseFail
    ELSE LET r == ParseValue(tk, i + 2) IN
         IF ~r.ok THEN ParseFail
         ELSE IF r.next > Len(tk) THEN ParseFail
         ELSE IF tk[r.next] = P("}")
              THEN ParseOk(Obj(DictSet(acc, tk[i].v, r.val)), r.next + 1)
         ELSE IF tk[r.next] = P(",")
              THEN ParseMembers(tk, r.next + 1, DictSet(acc, tk[i].v, r.val))
         ELSE ParseFail

ParseElements(tk, i, acc) ==
    LET r == ParseValue(tk, i) IN
    IF ~r.ok THEN ParseFail
    ELSE IF r.next > Len(tk) THEN ParseFail
    ELSE IF tk[r.next] = P("]") THEN ParseOk(Arr(Append(acc, r.val)), r.next + 1)
    ELSE IF tk[r.next] = P(",") THEN ParseElements(tk, r.next + 1, Append(acc, r.val))
    ELSE ParseFail

\* json.loads: the whole text must be one value; otherwise JSONDecodeError
JsonLoads(b) ==
    LET tk == SkipWs(b)
        r == ParseValue(tk, 1)
    IN IF r.ok /\ r.next = Len(tk) + 1 THEN r ELSE ParseFail

RECURSIVE JsonDumps(_)
RECURSIVE DumpMembers(_, _)
RECURSIVE DumpElements(_, _)

\* json.dumps with the default separators (", ", ": ")
JsonDumps(x) ==
    CASE x.t = "str" -> <<S(x.s)>>
      [] x.t = "num" -> <<N(x.n)>>
      [] x.t = "lit" -> <<L(x.l)>>
      [] x.t = "arr" -> <<P("[")>> \o DumpElements(x.items, 1) \o <<P("]")>>
      [] x.t = "obj" -> <<P("{")>> \o DumpMembers(x.kv, 1) \o <<P("}")>>

DumpMembers(kv, i) ==
    IF i > Len(kv) THEN <<>>
    ELSE (IF i > 1 THEN <<P(","), W>> ELSE <<>>)
         \o <<S(kv[i][1]), P(":"), W>> \o JsonDumps(kv[i][2])
         \o DumpMembers(kv, i + 1)

DumpElements(items, i) ==
    IF i > Len(items) THEN <<>>
    ELSE (IF i > 1 THEN <<P(","), W>> ELSE <<>>)
         \o JsonDumps(items[i]) \o DumpElements(items, i + 1)

----------------------------------------------------------------------------
(* Subscripting, as in response_body_json["choices"][0]["message"]["content"] *)

Val(x) == [exc |-> "", val |-> x]
Exc(e) == [exc |-> e, val |-> None]

\* first character of the string literals that occur in the modelled bodies
FirstChar(s) ==
    CASE s = "hello" -> "h"
      [] s = "my SSN is 123-45-6789" -> "m"
      [] OTHER -> s

\* x[key] for a string key
GetItem(x, key) ==
    CASE x.t = "obj" -> IF DictHas(x.kv, key) THEN Val(DictGet(x.kv, key))
                        ELSE Exc("KeyError")
      [] OTHER -> Exc("TypeError")

\* x[0]
GetIndex0(x) ==
    CASE x.t = "arr" -> IF x.items # <<>> THEN Val(x.items[1]) ELSE Exc("IndexError")
      [] x.t = "obj" -> Exc("KeyError")
      [] x.t = "str" -> IF x.s # "" THEN Val(Str(FirstChar(x.s))) ELSE Exc("IndexError")
      [] OTHER -> Exc("TypeError")

\* response_body_json["choices"][0]["message"]["content"]; the first
\* subscript that raises ends the expression
ContentOf(json) ==
    LET choices == GetItem(json, "choices") IN
    IF choices.exc # "" THEN choices
    ELSE LET first == GetIndex0(choices.val) IN
         IF first.exc # "" THEN first
         ELSE LET message == GetItem(first.val, "message") IN
              IF message.exc # "" THEN message
              ELSE GetItem(message.val, "content")

\* response_body_json["choices"][0]["message"]["content"] = text
SetContent(json, text) ==
    LET choices == DictGet(json.kv, "choices")
        first == choices.items[1]
        message == DictGet(first.kv, "message")
        message2 == Obj(DictSet(message.kv, "content", Str(text)))
        first2 == Obj(DictSet(first.kv, "message", message2))
        choices2 == Arr([choices.items EXCEPT ![1] = first2])
    IN Obj(DictSet(json.kv, "choices", choices2))

\* body_json.get("prompt", "") on a dict
GetPrompt(json) ==
    IF DictHas(json.kv, "prompt") THEN DictGet(json.kv, "prompt") ELSE Str("")

\* body_json["prompt"] = text
SetPrompt(json, text) == Obj(DictSet(json.kv, "prompt", Str(text)))

----------------------------------------------------------------------------
(* The sanitization backend's answer (SanitizeUserPromptResponse) *)

\* number of filter keys other than "sdp" the backend may report
NumOtherFilters == 2

OtherFilterNames == <<"rai", "pi_and_jailbreak", "malicious_uris", "csam", "extra">>

OtherFilters == {OtherFilterNames[i] : i \in 1..NumOtherFilters}

FilterKeys == {"sdp"} \cup OtherFilters

RewrittenTexts == {"", "my SSN is [REDACTED]"}

AbsentResult == [present |-> FALSE, match |-> FALSE, text |-> ""]

\* "sdp": deidentify_result.match_state and deidentify_result.data.text
SdpResults ==
    {AbsentResult} \cup [present : {TRUE}, match : BOOLEAN, text : RewrittenTexts]

\* any other filter: a match state only
OtherResults == {AbsentResult} \cup [present : {TRUE}, match : BOOLEAN, text : {""}]

Verdicts ==
    [matched : BOOLEAN,
     filter_results : {f \in [FilterKeys -> SdpResults \cup OtherResults] :
                          \A k \in OtherFilters : f[k] \in OtherResults}]

NoVerdict == [matched |-> FALSE, filter_results |-> [k \in FilterKeys |-> AbsentResult]]

----------------------------------------------------------------------------
(* screen_prompt and screen_model_response *)

\* the backend request of screen_prompt
ScreenPromptRequest(prompt) ==
    [entry |-> "sanitize_user_prompt", name |-> "MA_PROMPT_TEMPLATE", text |-> prompt]

\* the backend request of screen_model_response
ScreenModelResponseRequest(model_response) ==
    [entry |-> "sanitize_model_response", name |-> "MA_RESPONSE_TEMPLATE",
     text |-> model_response]

Screened(exc, is_invalid, final) ==
    [exc |-> exc, is_invalid |-> is_invalid, final |-> final]

NotScreened == Screened("", FALSE, "")
\* mutant: the "sdp" result is consulted before the overall match state
ScreenPromptResult_SdpFirst(resp, prompt) ==
    LET sdp == resp.filter_results["sdp"] IN
    IF ~sdp.present THEN Screened("AttributeError", FALSE, prompt)
    ELSE IF sdp.match THEN Screened("", FALSE, StrOr(sdp.text, prompt))
    ELSE Screened("", resp.matched, prompt)

\* screen_prompt after the backend answered: (is_invalid, final_prompt), or the
\* AttributeError of filter_results.get("sdp") being None
ScreenPromptResult(resp, prompt) ==
    IF resp.matched
    THEN LET sdp == resp.filter_results["sdp"] IN
         IF ~sdp.present THEN Screened("AttributeError", FALSE, prompt)
         ELSE IF sdp.match THEN Screened("", FALSE, StrOr(sdp.text, prompt))
         ELSE Screened("", TRUE, prompt)
    ELSE Screened("", FALSE, prompt)

\* screen_model_response after the backend answered
ScreenModelResponseResult(resp, model_response) ==
    IF resp.matched
    THEN LET sdp == resp.filter_results["sdp"] IN
         IF ~sdp.present THEN Screened("AttributeError", FALSE, model_response)
         ELSE IF sdp.match THEN Screened("", FALSE, sdp.text)
         ELSE Screened("", TRUE, model_response)
    ELSE Screened("", FALSE, model_response)

----------------------------------------------------------------------------
(* What a handler hands back to the transport *)

Forbidden == 403

Action(kind, has_body, b, code, headers, msg) ==
    [kind |-> kind, has_body |-> has_body, body |-> b, code |-> code,
     headers |-> headers, msg |-> msg]

\* callout_tools.add_body_mutation()
NoMutation == Action("add_body_mutation", FALSE, <<>>, 0, <<>>, "")

\* callout_tools.add_body_mutation(body=json.dumps(...))
BodyMutation(json) == Action("add_body_mutation", TRUE, JsonDumps(json), 0, <<>>, "")
\* mutant: a blocked prompt is answered without the 403
RequestBlockAction_NoStatus ==
    Action("header_immediate_response", FALSE, <<>>, 0,
           << <<"model-armour-message",
                "Provided prompt does not comply with Responsible AI filter">> >>, "")

\* callout_tools.header_immediate_response(code=Forbidden, headers=[...])
RequestBlockAction ==
    Action("header_immediate_response", FALSE, <<>>, Forbidden,
           << <<"model-armour-message",
                "Provided prompt does not comply with Responsible AI filter">> >>, "")

\* callout_tools.deny_callout(context, msg=...)
ResponseBlockAction ==
    Action("deny_callout", FALSE, <<>>, 0, <<>>,
           "Model response violates responsible AI filters. Update the prompt or contact application admin if issue persists.")

\* an exception leaving the handler
Raise(exc) == Action("raise", FALSE, <<>>, 0, <<>>, exc)
\* mutant: a failed backend call is swallowed and the body passes
SanitizeError_FailOpen == NoMutation

\* the backend call raising inside screen_prompt: nothing catches it
SanitizeError == Raise("GoogleAPICallError")

----------------------------------------------------------------------------
(* The handlers up to the backend call *)

Stop(a) == [next |-> "return", action |-> a, json |-> None, text |-> None]
Screen(json, text) == [next |-> "screen", action |-> NoMutation, json |-> json, text |-> text]

\* DataItem(text=...) accepts a str only
ScreenArg(json, text) ==
    IF text.t = "str" THEN Screen(json, text) ELSE Stop(Raise("TypeError"))

\* on_request_body, lines 158-167
RequestPre(b) ==
    IF DecodeFails(b) THEN Stop(Raise("UnicodeDecodeError"))
    ELSE LET body_content == Strip(b) IN
         IF body_content = <<>> THEN Stop(NoMutation)
         ELSE LET r == JsonLoads(body_content) IN
              IF ~r.ok THEN Stop(Raise("JSONDecodeError"))
              ELSE IF r.val.t # "obj" THEN Stop(Raise("AttributeError"))
              ELSE IF Falsy(GetPrompt(r.val)) THEN Stop(NoMutation)
              ELSE ScreenArg(r.val, GetPrompt(r.val))

\* on_response_body, lines 194-205
ResponsePre(b) ==
    IF DecodeFails(b) THEN Stop(Raise("UnicodeDecodeError"))
    ELSE LET body_content == Strip(b) IN
         IF body_content = <<>> THEN Stop(NoMutation)
         ELSE LET r == JsonLoads(body_content) IN
              IF ~r.ok THEN Stop(Raise("JSONDecodeError"))
              ELSE LET c == ContentOf(r.val) IN
                   IF c.exc # "" THEN Stop(Raise(c.exc))
                   ELSE IF Falsy(c.val) THEN Stop(NoMutation)
                   ELSE ScreenArg(r.val, c.val)

\* on_request_body, lines 168-181
RequestPost(json, sr) ==
    IF sr.exc # "" THEN Raise(sr.exc)
    ELSE IF sr.is_invalid THEN RequestBlockAction
    ELSE BodyMutation(SetPrompt(json, sr.final))

\* on_response_body, lines 206-214
ResponsePost(json, sr) ==
    IF sr.exc # "" THEN Raise(sr.exc)
    ELSE IF sr.is_invalid THEN ResponseBlockAction
    ELSE BodyMutation(SetContent(json, sr.final))

----------------------------------------------------------------------------
(* Bodies the transport delivers *)

Texts == {"hello", "my SSN is 123-45-6789"}

PromptBody(v) == <<P("{"), S("prompt"), P(":")>> \o v \o <<P("}")>>

PromptBodyMore(v) ==
    <<P("{"), S("model"), P(":"), S("m1"), P(","), S("prompt"), P(":")>> \o v
    \o <<P(","), S("n"), P(":"), N("2"), P("}")>>

Choices(v) == <<P("{"), S("choices"), P(":")>> \o v \o <<P("}")>>

Message(v) == <<P("["), P("{"), S("message"), P(":")>> \o v \o <<P("}"), P("]")>>

Content(v) == <<P("{"), S("content"), P(":")>> \o v \o <<P("}")>>

ResponseBody(v) == Choices(Message(Content(v)))

ResponseBodyMore(v) ==
    <<P("{"), S("id"), P(":"), S("r1"), P(","), S("choices"), P(":"), P("["), P("{"),
      S("index"), P(":"), N("0"), P(","), S("message"), P(":"), P("{"),
      S("role"), P(":"), S("assistant"), P(","), S("content"), P(":")>> \o v
    \o <<P("}"), P("}"), P(","), P("{"), S("index"), P(":"), N("1"), P("}"), P("]"), P("}")>>

TextValues == {<<S(s)>> : s \in Texts \cup {""}}

Bodies ==
    {<<>>, <<W>>, <<W, W>>, <<X>>, <<P("{")>>, <<P("{"), S("prompt"), P(":")>>,
     <<P("{"), P("}")>>, <<W, P("{"), W, P("}"), W>>, <<P("["), P("]")>>,
     <<S("hello")>>, <<L("null")>>,
     <<P("{"), S("model"), P(":"), S("m1"), P("}")>>,
     PromptBody(<<L("null")>>), PromptBody(<<N("5")>>),
     <<W>> \o PromptBody(<<W, S("hello")>>) \o <<W>>,
     Choices(<<P("["), P("]")>>), Choices(<<S("hello")>>),
     Choices(<<P("["), P("{"), P("}"), P("]")>>),
     Choices(Message(<<P("{"), P("}")>>)),
     ResponseBody(<<N("5")>>),
     <<W>> \o ResponseBody(<<S("hello")>>) \o <<W>>}
    \cup {PromptBody(v) : v \in TextValues}
    \cup {PromptBodyMore(v) : v \in TextValues}
    \cup {ResponseBody(v) : v \in TextValues}
    \cup {ResponseBodyMore(v) : v \in TextValues}

----------------------------------------------------------------------------
(* State of one handler invocation *)

VARIABLES
    handler,            \* which handler the transport invoked
    body,               \* the raw body it was given
    pc,                 \* "idle", "calling" (inside the backend call), "done"
    body_json,          \* the parsed body
    text,               \* the extracted prompt / model response
    calls,              \* backend requests made by this invocation
    backend,            \* "none", "pending", "returned", "raised"
    sanitize_response,  \* the backend's answer
    screened,           \* what screen_prompt returned
    emitted             \* what the handler handed back (returns and raises)

vars == <<handler, body, pc, body_json, text, calls, backend, sanitize_response,
          screened, emitted>>

Init ==
    /\ handler = "none"
    /\ body = <<>>
    /\ pc = "idle"
    /\ body_json = None
    /\ text = None
    /\ calls = <<>>
    /\ backend = "none"
    /\ sanitize_response = NoVerdict
    /\ screened = NotScreened
    /\ emitted = <<>>

\* a handler runs from its entry to its first return, raise or backend call
Enter(b, pre) ==
    /\ pc \in {"idle", "done"}
    /\ body' = b
    /\ body_json' = pre.json
    /\ text' = pre.text
    /\ sanitize_response' = NoVerdict
    /\ screened' = NotScreened
    /\ IF pre.next = "screen"
       THEN /\ pc' = "calling"
            /\ calls' = <<ScreenPromptRequest(pre.text.s)>>
            /\ backend' = "pending"
            /\ emitted' = <<>>
       ELSE /\ pc' = "done"
            /\ calls' = <<>>
            /\ backend' = "none"
            /\ emitted' = <<pre.action>>

on_request_body(b) ==
    /\ handler' = "on_request_body"
    /\ Enter(b, RequestPre(b))

on_response_body(b) ==
    /\ handler' = "on_response_body"
    /\ Enter(b, ResponsePre(b))

\* client.sanitize_user_prompt returns resp; the handler runs to its end
SanitizeReturns(resp) ==
    /\ pc = "calling"
    /\ pc' = "done"
    /\ backend' = "returned"
    /\ sanitize_response' = resp
    /\ screened' = ScreenPromptResult(resp, text.s)
    /\ emitted' = Append(emitted,
                         IF handler = "on_request_body"
                         THEN RequestPost(body_json, ScreenPromptResult(resp, text.s))
                         ELSE ResponsePost(body_json, ScreenPromptResult(resp, text.s)))
    /\ UNCHANGED <<handler, body, body_json, text, calls>>

\* client.sanitize_user_prompt raises; the exception leaves the handler
SanitizeRaises ==
    /\ pc = "calling"
    /\ pc' = "done"
    /\ backend' = "raised"
    /\ emitted' = Append(emitted, SanitizeError)
    /\ UNCHANGED <<handler, body, body_json, text, calls, sanitize_response, screened>>

Next ==
    \/ \E b \in Bodies : on_request_body(b)
    \/ \E b \in Bodies : on_response_body(b)
    \/ \E resp \in Verdicts : SanitizeReturns(resp)
    \/ SanitizeRaises

Spec == Init /\ [][Next]_vars

\* the backend call of an invocation ends, by returning or by raising
SanitizeEnds ==
    /\ pc = "calling"
    /\ (SanitizeRaises \/ \E resp \in Verdicts : SanitizeReturns(resp))

\* the handler's code is straight-line, and the backend call is assumed to end
FairSpec == Spec /\ WF_vars(SanitizeEnds)

----------------------------------------------------------------------------
(* Vocabulary of the properties *)

Requests == handler = "on_request_body"
Responses == handler = "on_response_body"

\* the backend answered and the handler ran to its end
Answered == pc = "done" /\ backend = "returned"

Sdp == sanitize_response.filter_results["sdp"]

IsReject(a) == a.kind \in {"header_immediate_response", "deny_callout"}

PassThrough == [kind |-> "add_body_mutation", has_body |-> FALSE, body |-> <<>>,
                code |-> 0, headers |-> <<>>, msg |-> ""]

\* the screened text field of the body an action carries, read back by the
\* direction's own path
Forwarded(a) ==
    IF Requests THEN GetPrompt(JsonLoads(a.body).val)
    ELSE ContentOf(JsonLoads(a.body).val).val

\* the action is a body mutation whose screened text field is s
Forwards(a, s) ==
    /\ a.kind = "add_body_mutation"
    /\ a.has_body
    /\ JsonLoads(a.body).ok
    /\ Forwarded(a) = Str(s)

AllWhitespace(b) == \A i \in 1..Len(b) : b[i].k = "w"

EmptyTextBodies ==
    IF Requests THEN {PromptBody(<<S("")>>), PromptBodyMore(<<S("")>>)}
    ELSE {ResponseBody(<<S("")>>), ResponseBodyMore(<<S("")>>)}

WellFormed(b) == ~DecodeFails(b) /\ JsonLoads(b).ok

\* the direction's text path does not resolve in the JSON document x
NoPrompt(x) == x.t = "obj" /\ ~DictHas(x.kv, "prompt")

NoContent(x) ==
    /\ x.t = "obj"
    /\ \/ ~DictHas(x.kv, "choices")
       \/ DictGet(x.kv, "choices") = Arr(<<>>)
       \/ LET c == DictGet(x.kv, "choices") IN
          /\ c.t = "arr"
          /\ c.items # <<>>
          /\ c.items[1].t = "obj"
          /\ \/ ~DictHas(c.items[1].kv, "message")
             \/ LET m == DictGet(c.items[1].kv, "message") IN
                m.t = "obj" /\ ~DictHas(m.kv, "content")

----------------------------------------------------------------------------
(* C1: whenever the backend's verdict has matched = true and the "sdp"     *)
(* filter result is absent or unmatched, screening yields Block: no error, *)
(* and the handler rejects.                                                *)
C1_BlockWithoutSdpMatch ==
    (Answered /\ sanitize_response.matched /\ (~Sdp.present \/ ~Sdp.match))
    => /\ screened.exc = ""
       /\ screened.is_invalid
       /\ Len(emitted) = 1
       /\ IsReject(emitted[1])

(* C2: whenever screening yields Block, the handler returns the            *)
(* direction's fixed rejection and nothing else: 403 with the              *)
(* model-armour-message header for a prompt, the fixed denial for a model  *)
(* response; the rejection carries no body.                                *)
C2_BlockIsRejection ==
    (Answered /\ screened.exc = "" /\ screened.is_invalid)
    => /\ Requests =>
            emitted = << [kind |-> "header_immediate_response", has_body |-> FALSE,
                          body |-> <<>>, code |-> 403,
                          headers |-> << <<"model-armour-message",
                              "Provided prompt does not comply with Responsible AI filter">> >>,
                          msg |-> ""] >>
       /\ Responses =>
            emitted = << [kind |-> "deny_callout", has_body |-> FALSE, body |-> <<>>,
                          code |-> 0, headers |-> <<>>,
                          msg |-> "Model response violates responsible AI filters. Update the prompt or contact application admin if issue persists."] >>

C2_Witness ==
    /\ Answered /\ screened.is_invalid /\ Responses
    /\ emitted[1].kind = "deny_callout"

(* C3: whenever the verdict has matched = false, screening yields the      *)
(* original text and no block, whatever the filter map holds, and the      *)
(* handler returns one body mutation whose screened text field is the      *)
(* original text.                                                          *)
C3_UnmatchedAllows ==
    (Answered /\ ~sanitize_response.matched)
    => /\ screened = [exc |-> "", is_invalid |-> FALSE, final |-> text.s]
       /\ Len(emitted) = 1
       /\ Forwards(emitted[1], text.s)

C3_Witness ==
    /\ Answered /\ ~sanitize_response.matched /\ ~Sdp.present
    /\ Requests
    /\ Forwards(emitted[1], "hello")

(* C4: in on_request_body, whenever the verdict has matched = true and the *)
(* "sdp" filter matched, the prompt is not blocked: the handler returns a  *)
(* body mutation whose "prompt" is the sdp text when non-empty, else the   *)
(* original prompt.                                                        *)
C4_SdpRewrites ==
    (Answered /\ Requests /\ sanitize_response.matched /\ Sdp.present /\ Sdp.match)
    => /\ screened.exc = ""
       /\ ~screened.is_invalid
       /\ screened.final = (IF Sdp.text # "" THEN Sdp.text ELSE text.s)
       /\ Len(emitted) = 1
       /\ Forwards(emitted[1], IF Sdp.text # "" THEN Sdp.text ELSE text.s)

C4_Witness ==
    /\ Answered /\ Requests /\ sanitize_response.matched /\ Sdp.present /\ Sdp.match
    /\ Sdp.text = ""
    /\ \E k \in OtherFilters : sanitize_response.filter_results[k].match
    /\ Forwards(emitted[1], "my SSN is 123-45-6789")

(* C5: every backend request made for a request body uses the user-prompt  *)
(* entry point and the prompt template, and every backend request made for *)
(* a response body uses the model-response entry point and the response    *)
(* template.                                                               *)
C5_DirectionSelectsEntryPoint ==
    \A i \in 1..Len(calls) :
        /\ Requests => calls[i] = ScreenPromptRequest(text.s)
        /\ Responses => calls[i] = ScreenModelResponseRequest(text.s)

(* C6: when the backend call fails, the handler ends in that error: the    *)
(* one thing it hands back is the raised exception, and the backend was    *)
(* called once.                                                            *)
C6_BackendFailureSurfaces ==
    (backend = "raised")
    => /\ pc = "done"
       /\ Len(calls) = 1
       /\ Len(emitted) = 1
       /\ emitted[1].kind = "raise"
       /\ ~emitted[1].has_body

C6_Witness == backend = "raised" /\ Responses /\ emitted[1].kind = "raise"

(* C7: when the raw body is empty or all whitespace, or the screened text  *)
(* field is present and empty, the handler returns the mutation without a  *)
(* body, raises nothing, and the backend is not called.                    *)
C7_EmptyPassesThrough ==
    (pc = "done" /\ (AllWhitespace(body) \/ body \in EmptyTextBodies))
    => /\ emitted = <<PassThrough>>
       /\ calls = <<>>
       /\ backend = "none"

C7_Witness ==
    /\ pc = "done" /\ Responses /\ body = <<W, W>>
    /\ emitted = <<PassThrough>>

(* C8: for a well-formed JSON body in which the direction's text path does *)
(* not resolve, the handler returns the mutation without a body and raises *)
(* nothing.                                                                *)
C8_MissingPathPassesThrough ==
    (pc = "done" /\ WellFormed(body)
       /\ (IF Requests THEN NoPrompt(JsonLoads(body).val)
           ELSE NoContent(JsonLoads(body).val)))
    => emitted = <<PassThrough>>

\* the single pass of an invocation, as a property of each state
C9_Safety ==
    /\ Len(calls) <= 1
    /\ Len(emitted) <= 1
    /\ (pc = "done") <=> (Len(emitted) = 1)
    /\ calls # <<>> => text.t = "str" /\ text.s # "" /\ calls[1].text = text.s
    /\ (pc = "calling") => (emitted = <<>> /\ Len(calls) = 1)
    /\ (emitted # <<>> /\ (emitted[1].has_body \/ IsReject(emitted[1])))
          => (backend = "returned" /\ Len(calls) = 1)

(* C9: an invocation calls the backend at most once, only with a non-empty *)
(* extracted text and before anything is handed back; it hands back        *)
(* exactly one result, a body or a rejection only after the backend        *)
(* answered; and once inside the backend call it reaches its end.          *)
C9_SinglePass == []C9_Safety /\ ((pc = "calling") ~> (pc = "done"))

C9_Witness ==
    /\ Answered /\ Len(calls) = 1 /\ Len(emitted) = 1
    /\ IsReject(emitted[1])

(* C10: when the verdict has matched = true and the "sdp" filter matched   *)
(* with an empty rewritten text, on_request_body forwards the original     *)
(* prompt, and on_response_body forwards what screen_model_response        *)
(* yields, the empty text, in choices[0].message.content.                  *)
C10_FallbackDiffers ==
    (Answered /\ sanitize_response.matched /\ Sdp.present /\ Sdp.match /\ Sdp.text = "")
    => /\ Len(emitted) = 1
       /\ Requests => Forwards(emitted[1], text.s)
       /\ Responses =>
            /\ ScreenModelResponseResult(sanitize_response, text.s).final = ""
            /\ Forwards(emitted[1], "")

=============================================================================
